---- MODULE Spec2Model ----
(***************************************************************************)
(* Model of ejuju/go-logs: log records and their options, the serializers, *)
(* the multi-writer fan-out (writerWrapper), the logging function returned *)
(* by DefaultLogger.LoggerFunc and JSONLogger.Log.                         *)
(*                                                                         *)
(* Byte strings are sequences of string tokens; the empty string stands    *)
(* for a nil error.  A data value is a record [kind, str, files]: kind     *)
(* "str" is a string, "files" a list of FileInfo, "func" a value that      *)
(* encoding/json cannot encode (a func or a chan).                         *)
(***************************************************************************)
EXTENDS Integers, Sequences, FiniteSets, TLC

\* ---------------------------------------------------------------- bounds
MaxSinks == 2
MaxOpts == 1
MaxBaseOpts == 1
MaxCalls == 1
MaxWalk == 2
MaxNewOpts == 2

\* ------------------------------------------------------ program constants
tries == 5
dataKeyPrefix == "__"
DataKeyLevel == "__level"
DataKeyFSys == "__fsys"

Tasks == {"t1", "t2"}
NoTask == "none"

\* ------------------------------------------------------------ data values
StrVal(s) == [kind |-> "str", str |-> s, files |-> <<>>]
FilesVal(fs) == [kind |-> "files", str |-> "", files |-> fs]
FuncVal == [kind |-> "func", str |-> "", files |-> <<>>]

\* The data keys of the model in the order encoding/json and fmt print map
\* keys (sorted).
KeyOrder == <<"__fsys", "__level", "fs", "k">>

\* Level and its labels (LevelUnknown = 0 ... LevelPanic = 5).
LevelInfo == 2
LevelError == 4
LevelLabels == <<"UNKNOWN", "DEBUG", "INFO", "WARN", "ERROR", "PANIC">>

\* The Log struct of the DefaultLogger variant: Message and Data.
Log(msg, data) == [Message |-> msg, Data |-> data]

\* The Log struct of the JSONLogger variant: CreatedAt, Level, Message, Data.
LevelLog(now, lvl, msg, data) ==
  [CreatedAt |-> now, Level |-> lvl, Message |-> msg, Data |-> data]

\* Mutant: the assignment replaces the map instead of setting one key.
SetDataReplace(l, key, value) ==
  [l EXCEPT !.Data = [k \in {key} |-> value]]

\* l.Data[key] = value
SetData(l, key, value) ==
  [l EXCEPT !.Data = [k \in (DOMAIN l.Data) \cup {key} |->
                        IF k = key THEN value ELSE l.Data[k]]]

\* ------------------------------------------------------------ file system
\* A file system is the sequence of calls fs.WalkDir makes to its callback:
\* a directory, a file (with its size), an entry whose walk failed (the
\* callback gets err # nil) or a file whose d.Info() fails.
FileEntry(p, n) == [kind |-> "file", path |-> p, size |-> n, err |-> ""]
DirEntry == [kind |-> "dir", path |-> ".", size |-> 0, err |-> ""]
WalkErrEntry(e) == [kind |-> "walkerr", path |-> "", size |-> 0, err |-> e]
InfoErrEntry(e) == [kind |-> "infoerr", path |-> "", size |-> 0, err |-> e]

FileInfo(p, n) == [Path |-> p, Size |-> n]

\* The callback of WithFS / WithFSys on one entry: the files collected so
\* far and the error it returns.
WalkFn(files, e) ==
  IF e.kind = "walkerr" THEN [files |-> files, err |-> e.err]
  ELSE IF e.kind = "dir" THEN [files |-> files, err |-> ""]
  ELSE IF e.kind = "infoerr" THEN [files |-> files, err |-> e.err]
  ELSE [files |-> Append(files, FileInfo(e.path, e.size)), err |-> ""]

\* fs.WalkDir: calls the callback on each entry and stops at the first
\* error the callback returns.
RECURSIVE WalkFrom(_, _, _)
WalkFrom(fsys, i, files) ==
  IF i > Len(fsys) THEN [files |-> files, err |-> ""]
  ELSE LET r == WalkFn(files, fsys[i])
       IN IF r.err # "" THEN r ELSE WalkFrom(fsys, i + 1, r.files)

WalkDir(fsys) == WalkFrom(fsys, 1, <<>>)

\* ---------------------------------------------------------------- options
OptWithData(key, value) == [op |-> "WithData", key |-> key, value |-> value, fsys |-> <<>>]
OptWithLevel(lvl) == [op |-> "WithLevel", key |-> DataKeyLevel, value |-> StrVal(lvl), fsys |-> <<>>]
OptWithFS(key, fsys) == [op |-> "WithFS", key |-> key, value |-> StrVal(""), fsys |-> fsys]
OptWithFSys(fsys) == [op |-> "WithFSys", key |-> DataKeyFSys, value |-> StrVal(""), fsys |-> fsys]

\* LogOption is any func(*Log): an option of the caller that panics.
OptPanics == [op |-> "Panics", key |-> "", value |-> StrVal(""), fsys |-> <<>>]

WithData(l, key, value) == SetData(l, key, value)

WithLevel(l, lvl) == SetData(l, DataKeyLevel, lvl)

\* The error branch stores err.Error(), and the statement after it stores
\* the collected files whether or not the walk failed.
WithFS(l, key, fsys) ==
  LET w == WalkDir(fsys)
      l1 == IF w.err # "" THEN SetData(l, key, StrVal(w.err)) ELSE l
  IN SetData(l1, key, FilesVal(w.files))

WithFSys(l, fsys) ==
  LET w == WalkDir(fsys)
      l1 == IF w.err # "" THEN SetData(l, DataKeyFSys, StrVal(w.err)) ELSE l
  IN SetData(l1, DataKeyFSys, FilesVal(w.files))

\* opt(l)
ApplyOption(l, opt) ==
  IF opt.op = "WithData" THEN WithData(l, opt.key, opt.value)
  ELSE IF opt.op = "WithLevel" THEN WithLevel(l, opt.value)
  ELSE IF opt.op = "WithFS" THEN WithFS(l, opt.key, opt.fsys)
  ELSE WithFSys(l, opt.fsys)

\* for _, opt := range opts { opt(l) }
RECURSIVE ApplyOptions(_, _, _)
ApplyOptions(l, opts, i) ==
  IF i > Len(opts) THEN l
  ELSE ApplyOptions(ApplyOption(l, opts[i]), opts, i + 1)

NewLog(msg, opts) == ApplyOptions(Log(msg, << >>), opts, 1)

\* New(lvl, msg, opts...) of the JSONLogger variant; now is time.Now().
New(now, lvl, msg, opts) ==
  ApplyOptions(LevelLog(now, LevelLabels[lvl + 1], msg, << >>), opts, 1)

\* ------------------------------------------------------------ serializers
RECURSIVE FilesTokens(_, _)
FilesTokens(files, i) ==
  IF i > Len(files) THEN <<>>
  ELSE <<"{", "path:", files[i].Path, "size:", ToString(files[i].Size), "}">>
       \o FilesTokens(files, i + 1)

ValueTokens(v) ==
  IF v.kind = "str" THEN <<"\"", v.str, "\"">>
  ELSE <<"[">> \o FilesTokens(v.files, 1) \o <<"]">>

\* The entries of a map, keys in sorted order.
RECURSIVE DataTokens(_, _)
DataTokens(data, i) ==
  IF i > Len(KeyOrder) THEN <<>>
  ELSE (IF KeyOrder[i] \in DOMAIN data
          THEN <<KeyOrder[i], ":">> \o ValueTokens(data[KeyOrder[i]])
          ELSE <<>>)
       \o DataTokens(data, i + 1)

\* encoding/json rejects a func or chan value (UnsupportedTypeError).
Encodable(l) == \A k \in DOMAIN l.Data : l.Data[k].kind # "func"

\* json.MarshalIndent(l, "", "\t"): the bytes and the error.  The data
\* field is omitted when the map is empty (omitempty).
MarshalIndent(l) ==
  IF ~Encodable(l) THEN [b |-> <<>>, err |-> "json: unsupported type"]
  ELSE [b |-> <<"{">>
              \o (IF "Level" \in DOMAIN l
                    THEN <<"created_at:", ToString(l.CreatedAt), "level:", l.Level>>
                    ELSE <<>>)
              \o <<"message:", l.Message>>
              \o (IF DOMAIN l.Data # {}
                    THEN <<"data:", "{">> \o DataTokens(l.Data, 1) \o <<"}">>
                    ELSE <<>>)
              \o <<"}">>,
        err |-> ""]

\* AsJSON panics when the marshalling fails.
AsJSON(l) ==
  LET m == MarshalIndent(l)
  IN IF m.err # "" THEN [b |-> <<>>, panic |-> m.err]
     ELSE [b |-> m.b, panic |-> ""]

\* fmt.Sprintf("%q %#v", l.Message, l.Data): never fails, a func value is
\* printed as its address.
RECURSIVE GoSyntaxTokens(_, _)
GoSyntaxTokens(data, i) ==
  IF i > Len(KeyOrder) THEN <<>>
  ELSE (IF KeyOrder[i] \in DOMAIN data
          THEN <<KeyOrder[i], ":">>
               \o (IF data[KeyOrder[i]].kind = "func" THEN <<"(func())(0x1)">>
                   ELSE ValueTokens(data[KeyOrder[i]]))
          ELSE <<>>)
       \o GoSyntaxTokens(data, i + 1)

AsSingleLine(l) ==
  [b |-> <<"\"", l.Message, "\"", " ", "map[string]interface {}{">>
         \o GoSyntaxTokens(l.Data, 1) \o <<"}">>,
   panic |-> ""]

\* dl.Serializer(l)
Serialize(ser, l) == IF ser = "AsJSON" THEN AsJSON(l) ELSE AsSingleLine(l)

\* Mutant: the suffix is left out of the frame.
FrameNoSuffix(prefix, serialized, suffix) == prefix \o serialized \o <<"\n">>

\* bytes.Join([][]byte{prefix, serialized, suffix + "\n"}, nil)
Frame(prefix, serialized, suffix) == prefix \o serialized \o suffix \o <<"\n">>

\* ------------------------------------------------------------------ sinks
\* An io.Writer of the model is configured by the error its Write returns
\* ("" for none) and, when it fails, the partial byte count it reports.
Min(a, b) == IF a < b THEN a ELSE b

\* w.Write(b): the count and the error.
SinkWrite(w, b) ==
  IF w.err = "" THEN [n |-> Len(b), err |-> ""]
  ELSE [n |-> Min(w.short, Len(b)), err |-> w.err]

\* errWrapper.Error(): the messages joined with ", ".
RECURSIVE ErrorFrom(_, _, _)
ErrorFrom(ew, i, out) ==
  IF i > Len(ew) THEN out
  ELSE ErrorFrom(ew, i + 1,
                 (IF i > 1 THEN out \o <<", ">> ELSE out) \o <<ew[i]>>)

\* Mutant: the separator is added before every message, the first included.
RECURSIVE ErrorSepEvery(_)
ErrorSepEvery(ew) ==
  IF ew = <<>> THEN <<>> ELSE <<", ", Head(ew)>> \o ErrorSepEvery(Tail(ew))

Error(ew) == ErrorFrom(ew, 1, <<>>)


\* ------------------------------------------------------------------ inputs
Messages == {"hey"}
Times == {1}
LevelInputs == {LevelInfo, LevelError}

SinkKinds ==
  { [err |-> "", short |-> 0],
    [err |-> "E1", short |-> 0],
    [err |-> "E2", short |-> 1] }

SeqsUpTo(S, n) == UNION { [1..k -> S] : k \in 0..n }

\* A walk that fails after one file has been collected.
FailingFS == <<DirEntry, FileEntry("a", 1), WalkErrEntry("EIO")>>

\* Options a caller of NewLog (DefaultLogger variant) passes.
NewLogOptions ==
  { OptWithData("k", StrVal("v")), OptWithData("k", FuncVal), OptWithFSys(FailingFS) }

\* Options a caller of New (JSONLogger variant) passes.
NewOptions ==
  { OptWithData("k", StrVal("v")), OptWithData("k", FuncVal), OptWithFS("fs", FailingFS) }

BaseOptionSet == { OptWithLevel("INFO"), OptWithData("k", StrVal("base")), OptPanics }

\* LogPrefix and LogSuffix: none, or "HTTP" and ",".
Framings == { [prefix |-> <<>>, suffix |-> <<>>], [prefix |-> <<"HTTP">>, suffix |-> <<",">>] }

\* The file systems and options of the specification of the options alone.
EntrySet == { DirEntry, FileEntry("a", 1), WalkErrEntry("EIO"), InfoErrEntry("EINFO") }
FileSystems == SeqsUpTo(EntrySet, MaxWalk)
AllOptions ==
  { OptWithData("k", StrVal("v")), OptWithLevel("INFO") }
  \cup { OptWithFS("fs", f) : f \in FileSystems }
  \cup { OptWithFSys(f) : f \in FileSystems }

\* ------------------------------------------------------------------- state
VARIABLES
  variant,          \* "default": DefaultLogger.LoggerFunc, "json": JSONLogger
  dl,               \* the DefaultLogger: Writers, Serializer, BaseOptions, LogPrefix, LogSuffix
  mu,               \* holder of the mutex of the logging function
  jfl_mu,           \* holder of JSONLogger.mu
  pc,               \* position of each task
  l,                \* the *Log each task passes to the logger
  created,          \* history: the record as New / NewLog returned it
  lastOpt,          \* history: the last option applied to the record: op, key, and the walk it made
  calls,            \* number of log calls each task has started
  b,                \* the framed bytes of the call in progress
  wi,               \* writerWrapper.Write: index of the next writer
  numBytesWritten,  \* writerWrapper.Write: numBytesWritten
  errs,             \* writerWrapper.Write: errs
  wret,             \* history: what writerWrapper.Write returned
  ret,              \* what the last log call returned: "none", "nil", "err" or "panic"
  i,                \* JSONLogger.Log: loop counter
  attempts,         \* history: iterations JSONLogger.Log has made in this call
  writeLog,         \* history: every Write made on a sink, in order
  jout              \* history: every Write made on JSONLogger.out, in order

config == <<variant, dl>>
records == <<l, created, lastOpt>>
writerVars == <<b, wi, numBytesWritten, errs, wret, writeLog>>
jsonVars == <<i, attempts, jout>>
vars == <<variant, dl, mu, jfl_mu, pc, l, created, lastOpt, calls, b, wi,
          numBytesWritten, errs, wret, ret, i, attempts, writeLog, jout>>

NoOpt == [op |-> "none", key |-> "", files |-> <<>>, err |-> ""]

\* What an option did: its key and, for a file system option, the walk.
Applied(opt) ==
  IF opt.op \in {"WithFS", "WithFSys"}
    THEN [op |-> opt.op, key |-> opt.key,
          files |-> WalkDir(opt.fsys).files, err |-> WalkDir(opt.fsys).err]
    ELSE [op |-> opt.op, key |-> opt.key, files |-> <<>>, err |-> ""]

LastApplied(opts, before) ==
  IF Len(opts) = 0 THEN before ELSE Applied(opts[Len(opts)])

NoRet == [kind |-> "none", text |-> <<>>]
NoWret == [n |-> 0, errs |-> <<>>, nil |-> TRUE, call |-> 0]

TaskInit ==
  /\ mu = NoTask
  /\ jfl_mu = NoTask
  /\ pc = [t \in Tasks |-> "start"]
  /\ l = [t \in Tasks |-> Log("", << >>)]
  /\ created = [t \in Tasks |-> Log("", << >>)]
  /\ lastOpt = [t \in Tasks |-> NoOpt]
  /\ calls = [t \in Tasks |-> 0]
  /\ b = [t \in Tasks |-> <<>>]
  /\ wi = [t \in Tasks |-> 1]
  /\ numBytesWritten = [t \in Tasks |-> 0]
  /\ errs = [t \in Tasks |-> <<>>]
  /\ wret = [t \in Tasks |-> NoWret]
  /\ ret = [t \in Tasks |-> NoRet]
  /\ i = [t \in Tasks |-> 0]
  /\ attempts = [t \in Tasks |-> 0]
  /\ writeLog = <<>>
  /\ jout = <<>>

NoLogger ==
  [Writers |-> <<>>, Serializer |-> "AsJSON", BaseOptions |-> <<>>,
   LogPrefix |-> <<>>, LogSuffix |-> <<>>]

Init ==
  /\ \/ /\ variant = "default"
        /\ \E ws \in SeqsUpTo(SinkKinds, MaxSinks),
              ser \in {"AsJSON", "AsSingleLine"},
              bo \in SeqsUpTo(BaseOptionSet, MaxBaseOpts),
              f \in Framings :
             dl = [Writers |-> ws, Serializer |-> ser, BaseOptions |-> bo,
                   LogPrefix |-> f.prefix, LogSuffix |-> f.suffix]
     \/ /\ variant = "json"
        /\ dl = NoLogger
  /\ TaskInit

\* ------------------------------------------------- creating the record
\* log(logs.NewLog(msg, opts...)): the caller builds its record.
CallNewLog(t) ==
  /\ variant = "default"
  /\ pc[t] = "start"
  /\ \E msg \in Messages, opts \in SeqsUpTo(NewLogOptions, MaxOpts) :
       /\ l' = [l EXCEPT ![t] = NewLog(msg, opts)]
       /\ created' = [created EXCEPT ![t] = NewLog(msg, opts)]
       /\ lastOpt' = [lastOpt EXCEPT ![t] = LastApplied(opts, NoOpt)]
  /\ pc' = [pc EXCEPT ![t] = "ready"]
  /\ UNCHANGED <<config, mu, jfl_mu, calls, writerVars, ret, jsonVars>>

\* logger.Log(logs.New(lvl, msg, opts...))
CallNew(t) ==
  /\ variant = "json"
  /\ pc[t] = "start"
  /\ \E now \in Times, lvl \in LevelInputs, msg \in Messages,
        opts \in SeqsUpTo(NewOptions, MaxOpts) :
       /\ l' = [l EXCEPT ![t] = New(now, lvl, msg, opts)]
       /\ created' = [created EXCEPT ![t] = New(now, lvl, msg, opts)]
       /\ lastOpt' = [lastOpt EXCEPT ![t] = LastApplied(opts, NoOpt)]
  /\ pc' = [pc EXCEPT ![t] = "ready"]
  /\ UNCHANGED <<config, mu, jfl_mu, calls, writerVars, ret, jsonVars>>

\* --------------------------------------- DefaultLogger.LoggerFunc closure
\* Mutant: the call enters without waiting for the mutex.
LockNoWait(t) ==
  /\ variant = "default"
  /\ pc[t] = "ready"
  /\ calls[t] < MaxCalls
  /\ mu' = t
  /\ pc' = [pc EXCEPT ![t] = "locked"]
  /\ calls' = [calls EXCEPT ![t] = @ + 1]
  /\ UNCHANGED <<config, jfl_mu, records, writerVars, ret, jsonVars>>

\* mu.Lock(); defer mu.Unlock()
Lock(t) ==
  /\ variant = "default"
  /\ pc[t] = "ready"
  /\ calls[t] < MaxCalls
  /\ mu = NoTask
  /\ mu' = t
  /\ pc' = [pc EXCEPT ![t] = "locked"]
  /\ calls' = [calls EXCEPT ![t] = @ + 1]
  /\ UNCHANGED <<config, jfl_mu, records, writerVars, ret, jsonVars>>

\* The index of the first option that panics, 0 when none does.
PanicAt(opts) ==
  IF \E j \in 1..Len(opts) : opts[j].op = "Panics"
    THEN CHOOSE j \in 1..Len(opts) :
           /\ opts[j].op = "Panics"
           /\ \A k \in 1..(j - 1) : opts[k].op # "Panics"
    ELSE 0

\* The options the loop over opts has applied when it ends or panics.
AppliedBeforePanic(opts) ==
  IF PanicAt(opts) = 0 THEN opts ELSE SubSeq(opts, 1, PanicAt(opts) - 1)

\* Mutant: Unlock is called at the end of the function instead of being
\* deferred, so a panic leaves the mutex locked.
PrepareNoDefer(t) ==
  /\ pc[t] = "locked"
  /\ LET done == AppliedBeforePanic(dl.BaseOptions)
         l1 == ApplyOptions(l[t], done, 1)
         s == IF PanicAt(dl.BaseOptions) # 0
                THEN [b |-> <<>>, panic |-> "option"]
                ELSE Serialize(dl.Serializer, l1)
     IN /\ l' = [l EXCEPT ![t] = l1]
        /\ lastOpt' = [lastOpt EXCEPT ![t] = LastApplied(done, @)]
        /\ IF s.panic # ""
             THEN /\ pc' = [pc EXCEPT ![t] = "panicked"]
                  /\ ret' = [ret EXCEPT ![t] = [kind |-> "panic", text |-> <<s.panic>>]]
                  /\ UNCHANGED <<mu, b, wi, numBytesWritten, errs>>
             ELSE /\ b' = [b EXCEPT ![t] = Frame(dl.LogPrefix, s.b, dl.LogSuffix)]
                  /\ wi' = [wi EXCEPT ![t] = 1]
                  /\ numBytesWritten' = [numBytesWritten EXCEPT ![t] = 0]
                  /\ errs' = [errs EXCEPT ![t] = <<>>]
                  /\ pc' = [pc EXCEPT ![t] = "write"]
                  /\ UNCHANGED <<mu, ret>>
  /\ UNCHANGED <<config, jfl_mu, created, calls, wret, writeLog, jsonVars>>

\* The base options are applied to the caller's record, the record is
\* serialized and framed.  A panic of a base option or of the serializer
\* runs the deferred Unlock and leaves the call.
Prepare(t) ==
  /\ pc[t] = "locked"
  /\ LET done == AppliedBeforePanic(dl.BaseOptions)
         l1 == ApplyOptions(l[t], done, 1)
         s == IF PanicAt(dl.BaseOptions) # 0
                THEN [b |-> <<>>, panic |-> "option"]
                ELSE Serialize(dl.Serializer, l1)
     IN /\ l' = [l EXCEPT ![t] = l1]
        /\ lastOpt' = [lastOpt EXCEPT ![t] = LastApplied(done, @)]
        /\ IF s.panic # ""
             THEN /\ mu' = NoTask
                  /\ pc' = [pc EXCEPT ![t] = "panicked"]
                  /\ ret' = [ret EXCEPT ![t] = [kind |-> "panic", text |-> <<s.panic>>]]
                  /\ UNCHANGED <<b, wi, numBytesWritten, errs>>
             ELSE /\ b' = [b EXCEPT ![t] = Frame(dl.LogPrefix, s.b, dl.LogSuffix)]
                  /\ wi' = [wi EXCEPT ![t] = 1]
                  /\ numBytesWritten' = [numBytesWritten EXCEPT ![t] = 0]
                  /\ errs' = [errs EXCEPT ![t] = <<>>]
                  /\ pc' = [pc EXCEPT ![t] = "write"]
                  /\ UNCHANGED <<mu, ret>>
  /\ UNCHANGED <<config, jfl_mu, created, calls, wret, writeLog, jsonVars>>

\* Mutant: the loop stops at the first writer that fails.
WriteSinkShortCircuit(t) ==
  /\ pc[t] = "write"
  /\ wi[t] <= Len(dl.Writers)
  /\ LET r == SinkWrite(dl.Writers[wi[t]], b[t])
     IN /\ errs' = [errs EXCEPT ![t] = IF r.err # "" THEN Append(@, r.err) ELSE @]
        /\ numBytesWritten' = [numBytesWritten EXCEPT ![t] = @ + r.n]
        /\ writeLog' = Append(writeLog,
                              [task |-> t, call |-> calls[t], sink |-> wi[t],
                               b |-> b[t], n |-> r.n, err |-> r.err])
        /\ wi' = [wi EXCEPT ![t] = IF r.err # "" THEN Len(dl.Writers) + 1 ELSE @ + 1]
  /\ UNCHANGED <<config, mu, jfl_mu, pc, records, calls, b, wret, ret, jsonVars>>

\* Mutant: the count of a writer is added only when its Write succeeded.
WriteSinkCountOnSuccess(t) ==
  /\ pc[t] = "write"
  /\ wi[t] <= Len(dl.Writers)
  /\ LET r == SinkWrite(dl.Writers[wi[t]], b[t])
     IN /\ errs' = [errs EXCEPT ![t] = IF r.err # "" THEN Append(@, r.err) ELSE @]
        /\ numBytesWritten' = [numBytesWritten EXCEPT ![t] = IF r.err # "" THEN @ ELSE @ + r.n]
        /\ writeLog' = Append(writeLog,
                              [task |-> t, call |-> calls[t], sink |-> wi[t],
                               b |-> b[t], n |-> r.n, err |-> r.err])
  /\ wi' = [wi EXCEPT ![t] = @ + 1]
  /\ UNCHANGED <<config, mu, jfl_mu, pc, records, calls, b, wret, ret, jsonVars>>

\* One iteration of the loop of writerWrapper.Write.
WriteSink(t) ==
  /\ pc[t] = "write"
  /\ wi[t] <= Len(dl.Writers)
  /\ LET r == SinkWrite(dl.Writers[wi[t]], b[t])
     IN /\ errs' = [errs EXCEPT ![t] = IF r.err # "" THEN Append(@, r.err) ELSE @]
        /\ numBytesWritten' = [numBytesWritten EXCEPT ![t] = @ + r.n]
        /\ writeLog' = Append(writeLog,
                              [task |-> t, call |-> calls[t], sink |-> wi[t],
                               b |-> b[t], n |-> r.n, err |-> r.err])
  /\ wi' = [wi EXCEPT ![t] = @ + 1]
  /\ UNCHANGED <<config, mu, jfl_mu, pc, records, calls, b, wret, ret, jsonVars>>

\* Mutant: Write returns errs without the nil test, so the error it
\* returns is never nil.
WriteReturnAlwaysErrs(t) ==
  /\ pc[t] = "write"
  /\ wi[t] > Len(dl.Writers)
  /\ wret' = [wret EXCEPT ![t] = [n |-> numBytesWritten[t], errs |-> errs[t],
                                  nil |-> FALSE, call |-> calls[t]]]
  /\ ret' = [ret EXCEPT ![t] = [kind |-> "err", text |-> Error(errs[t])]]
  /\ mu' = NoTask
  /\ pc' = [pc EXCEPT ![t] = "ready"]
  /\ UNCHANGED <<config, jfl_mu, records, calls, b, wi, numBytesWritten, errs,
                 writeLog, jsonVars>>

\* writerWrapper.Write returns (numBytesWritten, errs) or (numBytesWritten,
\* nil); the closure returns the error and the deferred Unlock runs.
WriteReturn(t) ==
  /\ pc[t] = "write"
  /\ wi[t] > Len(dl.Writers)
  /\ wret' = [wret EXCEPT ![t] = [n |-> numBytesWritten[t], errs |-> errs[t],
                                  nil |-> (errs[t] = <<>>), call |-> calls[t]]]
  /\ ret' = [ret EXCEPT ![t] = IF errs[t] # <<>>
                                 THEN [kind |-> "err", text |-> Error(errs[t])]
                                 ELSE [kind |-> "nil", text |-> <<>>]]
  /\ mu' = NoTask
  /\ pc' = [pc EXCEPT ![t] = "ready"]
  /\ UNCHANGED <<config, jfl_mu, records, calls, b, wi, numBytesWritten, errs,
                 writeLog, jsonVars>>

\* ----------------------------------------------------------- JSONLogger.Log
\* jfl.mu.Lock(); defer jfl.mu.Unlock(); i := 0
JLock(t) ==
  /\ variant = "json"
  /\ pc[t] = "ready"
  /\ calls[t] < MaxCalls
  /\ jfl_mu = NoTask
  /\ jfl_mu' = t
  /\ pc' = [pc EXCEPT ![t] = "jloop"]
  /\ calls' = [calls EXCEPT ![t] = @ + 1]
  /\ i' = [i EXCEPT ![t] = 0]
  /\ attempts' = [attempts EXCEPT ![t] = 0]
  /\ UNCHANGED <<config, mu, records, writerVars, ret, jout>>

\* Mutant: the loop goes on after a successful write (no break).
JAttemptNoBreak(t) ==
  /\ pc[t] = "jloop"
  /\ i[t] < tries
  /\ attempts' = [attempts EXCEPT ![t] = @ + 1]
  /\ i' = [i EXCEPT ![t] = @ + 1]
  /\ LET m == MarshalIndent(l[t])
     IN IF m.err # ""
          THEN UNCHANGED jout
          ELSE \E ok \in BOOLEAN :
                 jout' = Append(jout, [task |-> t, call |-> calls[t],
                                       b |-> m.b \o <<",", "\n">>, ok |-> ok])
  /\ UNCHANGED <<config, mu, jfl_mu, pc, records, calls, writerVars, ret>>

\* One iteration of the loop: marshal, then write the bytes followed by
\* ",\n" to the file; the file's Write succeeds or fails.
JAttempt(t) ==
  /\ pc[t] = "jloop"
  /\ i[t] < tries
  /\ attempts' = [attempts EXCEPT ![t] = @ + 1]
  /\ LET m == MarshalIndent(l[t])
     IN IF m.err # ""
          THEN /\ i' = [i EXCEPT ![t] = @ + 1]
               /\ UNCHANGED <<pc, jout>>
          ELSE \E ok \in BOOLEAN :
                 /\ jout' = Append(jout, [task |-> t, call |-> calls[t],
                                          b |-> m.b \o <<",", "\n">>, ok |-> ok])
                 /\ IF ok THEN /\ pc' = [pc EXCEPT ![t] = "jbreak"]
                               /\ UNCHANGED i
                          ELSE /\ i' = [i EXCEPT ![t] = @ + 1]
                               /\ UNCHANGED pc
  /\ UNCHANGED <<config, mu, jfl_mu, records, calls, writerVars, ret>>

\* return nil, and the deferred Unlock
JReturn(t) ==
  /\ \/ pc[t] = "jbreak"
     \/ pc[t] = "jloop" /\ i[t] >= tries
  /\ ret' = [ret EXCEPT ![t] = [kind |-> "nil", text |-> <<>>]]
  /\ jfl_mu' = NoTask
  /\ pc' = [pc EXCEPT ![t] = "ready"]
  /\ UNCHANGED <<config, mu, records, calls, writerVars, jsonVars>>

Next ==
  \E t \in Tasks :
    \/ CallNewLog(t)
    \/ CallNew(t)
    \/ Lock(t)
    \/ Prepare(t)
    \/ WriteSink(t)
    \/ WriteReturn(t)
    \/ JLock(t)
    \/ JAttempt(t)
    \/ JReturn(t)

Spec == Init /\ [][Next]_vars

\* ------------------------------------- the logging function, scheduled
\* The DefaultLogger variant alone.  Every task that can take a step of
\* its call takes it (every sink Write returns), and a task blocked in
\* mu.Lock() gets the mutex if it is free again and again (sync.Mutex hands
\* the mutex to a starving waiter).
InitDefault == Init /\ variant = "default"

NextDefault ==
  \E t \in Tasks :
    \/ CallNewLog(t)
    \/ Lock(t)
    \/ Prepare(t)
    \/ WriteSink(t)
    \/ WriteReturn(t)

Fairness ==
  \A t \in Tasks :
    /\ WF_vars(CallNewLog(t))
    /\ SF_vars(Lock(t))
    /\ WF_vars(Prepare(t))
    /\ WF_vars(WriteSink(t))
    /\ WF_vars(WriteReturn(t))

SpecFair == InitDefault /\ [][NextDefault]_vars /\ Fairness

\* ------------------------------------------- the options on their own
\* The options are functions of the record alone: one caller builds a
\* record with any options over any file system.
Builder == "t1"
BuildMessages == {"hey", "m"}

BuildLog(t) ==
  /\ pc[t] = "start"
  /\ \E msg \in BuildMessages, opts \in SeqsUpTo(AllOptions, MaxNewOpts) :
       /\ l' = [l EXCEPT ![t] = NewLog(msg, opts)]
       /\ created' = [created EXCEPT ![t] = NewLog(msg, opts)]
       /\ lastOpt' = [lastOpt EXCEPT ![t] = LastApplied(opts, NoOpt)]
  /\ pc' = [pc EXCEPT ![t] = "built"]
  /\ UNCHANGED <<config, mu, jfl_mu, calls, writerVars, ret, jsonVars>>

InitOptions ==
  /\ variant = "options"
  /\ dl = NoLogger
  /\ TaskInit

NextOptions == BuildLog(Builder)

SpecOptions == InitOptions /\ [][NextOptions]_vars


\* ================================================================ claims
\* The last log call of t has returned to its caller.
Returned(t) == pc[t] = "ready" /\ calls[t] > 0

\* The Writes the call c of t made on the sinks, in order.
Attempts(t, c) == SelectSeq(writeLog, LAMBDA e : e.task = t /\ e.call = c)

\* The indices of the writers configured to fail.
Failing == { j \in 1..Len(dl.Writers) : dl.Writers[j].err # "" }

\* The errors of the failing writers, in the order of the writers.
RECURSIVE FailingErrs(_)
FailingErrs(ws) ==
  IF ws = <<>> THEN <<>>
  ELSE (IF Head(ws).err # "" THEN <<Head(ws).err>> ELSE <<>>) \o FailingErrs(Tail(ws))

RECURSIVE SumN(_)
SumN(a) == IF a = <<>> THEN 0 ELSE Head(a).n + SumN(Tail(a))

RECURSIVE Joined(_)
Joined(msgs) ==
  IF Len(msgs) = 0 THEN <<>>
  ELSE IF Len(msgs) = 1 THEN <<msgs[1]>>
  ELSE <<msgs[1], ", ">> \o Joined(Tail(msgs))

\* C1: when writerWrapper.Write has returned, it has made exactly one Write
\* on each of the N sinks, in construction order, each with the bytes it was
\* given, whichever sinks failed.
C1_EverySinkAttemptedInOrder ==
  \A t \in Tasks :
    (variant = "default" /\ Returned(t)) =>
      LET a == Attempts(t, calls[t])
      IN /\ Len(a) = Len(dl.Writers)
         /\ \A j \in 1..Len(a) : a[j].sink = j /\ a[j].b = b[t]

\* A call on two sinks, the first of which fails, has returned.
C1_Witness ==
  \E t \in Tasks :
    /\ variant = "default" /\ Returned(t)
    /\ Len(dl.Writers) = 2
    /\ dl.Writers[1].err # ""
    /\ Len(Attempts(t, calls[t])) = 2

\* C2: writerWrapper.Write returns nil if and only if no sink failed, and
\* the aggregated failure if and only if at least one failed (N = 0 too).
C2_NilIffNoSinkFailed ==
  \A t \in Tasks :
    (variant = "default" /\ Returned(t)) =>
      /\ wret[t].nil <=> (Failing = {})
      /\ (~wret[t].nil) <=> (Cardinality(Failing) > 0)
      /\ wret[t].nil => wret[t].errs = <<>>
      /\ (ret[t].kind = "nil") <=> (Failing = {})
      /\ (ret[t].kind = "err") <=> (Failing # {})

\* A call on a succeeding and a failing sink has returned the failure.
C2_Witness ==
  \E t \in Tasks :
    /\ variant = "default" /\ Returned(t)
    /\ Failing # {} /\ Failing # 1..Len(dl.Writers)
    /\ ~wret[t].nil

\* C3: the count writerWrapper.Write returns is the sum of the counts the
\* Write on every sink reported, failing sinks with a partial count included.
C3_CountIsSumOfAllSinks ==
  \A t \in Tasks :
    (variant = "default" /\ Returned(t)) =>
      wret[t].n = SumN(Attempts(t, calls[t]))

\* A call with a failing sink that reported a partial count has returned.
C3_Witness ==
  \E t \in Tasks :
    /\ variant = "default" /\ Returned(t)
    /\ \E j \in Failing : dl.Writers[j].short > 0
    /\ \E j \in 1..Len(dl.Writers) : j \notin Failing
    /\ wret[t].n > Len(b[t])

\* C4: the aggregated failure holds the errors of the failing sinks, one
\* each, in the order of the sinks, and its message is their messages
\* joined with ", ", with no separator at either end.
C4_ErrorsInSinkOrderJoined ==
  \A t \in Tasks :
    (variant = "default" /\ Returned(t) /\ ret[t].kind = "err") =>
      /\ wret[t].errs = FailingErrs(dl.Writers)
      /\ Len(wret[t].errs) = Cardinality(Failing)
      /\ ret[t].text = Joined(FailingErrs(dl.Writers))
      /\ ret[t].text[1] # ", "
      /\ ret[t].text[Len(ret[t].text)] # ", "

\* A call on two failing sinks with different errors has returned.
C4_Witness ==
  \E t \in Tasks :
    /\ variant = "default" /\ Returned(t)
    /\ Len(wret[t].errs) = 2
    /\ wret[t].errs[1] # wret[t].errs[2]
    /\ Len(ret[t].text) = 3

\* A task is inside the apply-options / serialize / write sequence.
InSequence(t) == pc[t] \in {"locked", "write", "jloop", "jbreak"}

\* The entries of one call are next to each other in a log of Writes.
Contiguous(log) ==
  \A p \in 1..Len(log), r \in 1..Len(log) :
    (p < r /\ log[p].task = log[r].task /\ log[p].call = log[r].call) =>
      \A q \in p..r : log[q].task = log[p].task /\ log[q].call = log[p].call

\* C5: at most one call is inside its apply-options / serialize / write
\* sequence, and the Writes of two calls never interleave: every sink gets
\* the whole bytes of one call after the other.
C5_OneCallAtATime ==
  /\ Cardinality({ t \in Tasks : InSequence(t) }) <= 1
  /\ \A t \in Tasks : InSequence(t) => (mu = t \/ jfl_mu = t)
  /\ Contiguous(writeLog)
  /\ Contiguous(jout)
  /\ \A p \in 1..Len(writeLog) :
       writeLog[p].n = Len(writeLog[p].b) \/ writeLog[p].err # ""

\* Two tasks have each written their record to two sinks.
C5_Witness ==
  /\ Len(dl.Writers) = 2
  /\ \A t \in Tasks : Returned(t) /\ Len(Attempts(t, calls[t])) = 2

\* C6: when a log call has returned, every succeeding sink has received
\* prefix + serialized record + suffix + newline, and the call returned the
\* failing sinks' error text, or success when no sink fails.
C6_FramedRecordAndFailureText ==
  \A t \in Tasks :
    (variant = "default" /\ Returned(t)) =>
      LET framed == dl.LogPrefix \o Serialize(dl.Serializer, l[t]).b
                      \o dl.LogSuffix \o <<"\n">>
      IN /\ \A j \in 1..Len(dl.Writers) :
              j \notin Failing =>
                \E p \in 1..Len(writeLog) :
                  /\ writeLog[p].task = t /\ writeLog[p].call = calls[t]
                  /\ writeLog[p].sink = j
                  /\ writeLog[p].b = framed
                  /\ writeLog[p].n = Len(framed)
         /\ IF Failing = {}
              THEN ret[t] = [kind |-> "nil", text |-> <<>>]
              ELSE ret[t] = [kind |-> "err", text |-> Joined(FailingErrs(dl.Writers))]

\* The scenario: message "hey", no options, a succeeding and a failing sink,
\* a prefix and a suffix.
C6_Witness ==
  \E t \in Tasks :
    /\ variant = "default" /\ Returned(t)
    /\ Len(dl.Writers) = 2
    /\ dl.Writers[1].err = "" /\ dl.Writers[2].err # ""
    /\ dl.LogSuffix # <<>>
    /\ created[t] = Log("hey", << >>)
    /\ ret[t].kind = "err" /\ ret[t].text = <<dl.Writers[2].err>>

\* The serializer of the call is the JSON encoder.
UsesJSON == variant = "json" \/ dl.Serializer = "AsJSON"

\* C7: a log call on a record with a value the serializer cannot encode
\* ends by returning an error to its caller, and never by a panic.
C7_EncodingFailureReturned ==
  \A t \in Tasks :
    /\ pc[t] # "panicked"
    /\ (Returned(t) /\ UsesJSON /\ ~Encodable(l[t])) => ret[t].kind = "err"

\* The entries of the call c of t in the log of JSONLogger.out.
JAttempts(t, c) == SelectSeq(jout, LAMBDA e : e.task = t /\ e.call = c)

\* C8: JSONLogger.Log makes at most tries attempts, none after the first
\* attempt that marshals and writes, exactly tries when all fail, and
\* returns nil.
C8_BoundedRetryReturnsNil ==
  \A t \in Tasks :
    LET a == JAttempts(t, calls[t])
        won == \E p \in 1..Len(a) : a[p].ok
    IN /\ attempts[t] <= tries
       /\ Len(a) <= attempts[t]
       /\ \A p \in 1..Len(a) : a[p].ok => p = Len(a)
       /\ (variant = "json" /\ Returned(t)) =>
            /\ ret[t].kind = "nil"
            /\ won => attempts[t] = Len(a)
            /\ ~won => attempts[t] = tries
            /\ (~Encodable(l[t])) => (a = <<>> /\ attempts[t] = tries)

\* A call whose tries writes all failed has returned nil.
C8_Witness ==
  \E t \in Tasks :
    /\ variant = "json" /\ Returned(t)
    /\ Len(JAttempts(t, calls[t])) = tries
    /\ \A p \in 1..tries : ~JAttempts(t, calls[t])[p].ok
    /\ ret[t].kind = "nil"

\* C9: once a file system option whose walk ended with an error has been
\* applied, the record's key holds the error message, not the files.
C9_WalkErrorStored ==
  \A t \in Tasks :
    (lastOpt[t].op \in {"WithFS", "WithFSys"} /\ lastOpt[t].err # "") =>
      /\ lastOpt[t].key \in DOMAIN l[t].Data
      /\ l[t].Data[lastOpt[t].key] = StrVal(lastOpt[t].err)

\* C10 as stated: a record never differs from the record New / NewLog
\* returned.
C10_RecordNeverChanges ==
  \A t \in Tasks : pc[t] # "start" => l[t] = created[t]

\* The keys the base options of the logger set.
BaseKeys == { dl.BaseOptions[j].key : j \in 1..Len(dl.BaseOptions) }

\* No log call of t has applied the base options yet.
NotPrepared(t) == calls[t] = 0 \/ (calls[t] = 1 /\ pc[t] = "locked")

\* C10 (amended): after creation the message never changes, JSONLogger.Log
\* never changes the record, and a log call of a DefaultLogger function
\* changes the data only through its base options: every key no base option
\* sets keeps its value, and no other key appears.
C10_OnlyBaseOptionsChangeData ==
  \A t \in Tasks :
    pc[t] # "start" =>
      /\ l[t].Message = created[t].Message
      /\ DOMAIN l[t] = DOMAIN created[t]
      /\ (variant = "json" \/ dl.BaseOptions = <<>> \/ NotPrepared(t)) => l[t] = created[t]
      /\ \A k \in DOMAIN created[t].Data :
           k \in DOMAIN l[t].Data /\ (k \notin BaseKeys => l[t].Data[k] = created[t].Data[k])
      /\ DOMAIN l[t].Data \subseteq (DOMAIN created[t].Data \cup BaseKeys)
      /\ (~NotPrepared(t) /\ variant = "default" /\ PanicAt(dl.BaseOptions) = 0) =>
           \A k \in BaseKeys : k \in DOMAIN l[t].Data

\* A log call with a base option has returned and left the record changed,
\* a key of the caller kept.
C10_Witness ==
  \E t \in Tasks :
    /\ variant = "default" /\ Returned(t)
    /\ l[t] # created[t]
    /\ \E k \in DOMAIN created[t].Data : k \notin BaseKeys

\* The log call of t has ended: it returned or left by a panic.
Ended(t) == pc[t] \in {"ready", "panicked"} /\ calls[t] > 0

\* t is at mu.Lock() of a log call it has not been let into yet.
Waiting(t) == pc[t] = "ready" /\ calls[t] < MaxCalls

\* Every task has made all its log calls and every one of them has ended.
AllEnded == \A t \in Tasks : Ended(t) /\ ~Waiting(t)

\* C11: the mutex of the logging function is held only by a call in
\* progress, so it is free whenever every call has ended, by a return or by
\* a panic of a base option or of the serializer; and every log call, the
\* waiting and the later ones, is let in and ends, the mutex free at the end.
C11_LockReleasedOnEveryExit ==
  /\ [](\A t \in Tasks : mu = t => pc[t] \in {"locked", "write"})
  /\ []((\A t \in Tasks : ~InSequence(t)) => mu = NoTask)
  /\ <>[](AllEnded /\ mu = NoTask)

\* A call has left by a panic, another has returned the error of a failing
\* sink, and the mutex is free.
C11_Witness ==
  \E t \in Tasks, u \in Tasks :
    /\ pc[t] = "panicked" /\ ret[t].kind = "panic"
    /\ Returned(u) /\ ret[u].kind = "err"
    /\ mu = NoTask

====
